---- MODULE Spec2Model ----
(***************************************************************************)
(* Buyer-leads client: the session store (AuthContext.tsx), the API        *)
(* gateway and the buyer validation schema (validation.ts), the list view  *)
(* (part_001), the detail view (part_002) and the edit view (part_003),    *)
(* as state machines over the handlers and effects of the source.          *)
(***************************************************************************)
EXTENDS Integers, Sequences, FiniteSets, TLC

VARIABLES
    localStorage,   \* value under the key "token" of window.localStorage
    user,           \* AuthProvider: useState<User | null>
    token,          \* AuthProvider: useState<string | null>
    loading,        \* AuthProvider: useState(true)
    mounted,        \* whether the AuthProvider mount effect has run
    inflight,       \* requests handed to axios and not yet answered
    issued,         \* number of requests issued so far
    calls,          \* number of login, demoLogin and logout calls so far
    lastResponse,   \* the answer the response interceptor handled last
    candidate,      \* the record handed to buyerSchema
    parsed,         \* << >> or << the result of buyerSchema.safeParse(candidate) >>
    phone,          \* the string handed to phoneSchema
    phoneParsed,    \* << >> or << the issues phoneSchema reports for phone >>
    buyer,          \* EditBuyerPage: useState<BuyerData | null>
    fetchLoading,   \* EditBuyerPage: useState(true)
    editLoading,    \* EditBuyerPage: loading, useState(false)
    editError,      \* EditBuyerPage: error, useState("")
    form,           \* EditBuyerPage: the values react-hook-form holds
    errors,         \* EditBuyerPage: formState.errors, the paths with an error
    editMounted,    \* whether the effects of EditBuyerPage have run
    route,          \* the page the router shows
    filters,        \* BuyersListPage: the FilterState
    query,          \* the query string of the URL, as its (key, value) pairs
    navigation,     \* the router method BuyersListPage called last
    buyers,         \* BuyersListPage: << >> or << the query the rows shown answer >>
    pagination,     \* BuyersListPage: << >> or << the query the page info answers >>
    listLoading,    \* BuyersListPage: loading, useState(true)
    listError,      \* BuyersListPage: error, useState("")
    listMounted,    \* whether the effects of BuyersListPage have run
    lastChange,     \* << >> or << key, value, the FilterState before >> of the last handleFilterChange
    thrown,         \* whether the login or demoLogin call settled last threw to its caller
    csvImporting,   \* BuyersListPage: useState(false)
    csvExporting,   \* BuyersListPage: useState(false)
    importError,    \* BuyersListPage: useState(""), as the lines of the text
    importSuccess,  \* BuyersListPage: useState(""), as the lines of the text
    detailBuyer,    \* BuyerDetailPage: buyer, useState<Buyer | null>
    detailLoading,  \* BuyerDetailPage: loading, useState(true)
    detailError,    \* BuyerDetailPage: error, useState("")
    deleteLoading,  \* BuyerDetailPage: useState(false)
    detailMounted,  \* whether the effects of BuyerDetailPage have run
    dialog,         \* the window.confirm or alert call handleDelete made last
    deps            \* << user, loading >> as the effects of the mounted view last ran with

sessionVars == <<localStorage, user, token, loading, mounted, inflight, issued, calls,
                 lastResponse, thrown>>

validationVars == <<candidate, parsed, phone, phoneParsed>>
editVars == <<buyer, fetchLoading, editLoading, editError, form, errors, editMounted, route>>
listVars == <<filters, query, navigation, buyers, pagination, listLoading, listError,
              listMounted, lastChange>>
importVars == <<csvImporting, csvExporting, importError, importSuccess>>
detailVars == <<detailBuyer, detailLoading, detailError, deleteLoading, detailMounted, dialog>>
viewVars == <<validationVars, editVars, listVars, importVars, detailVars, deps>>

\* ------------------------------------------------------------------ bounds

\* requests one run may issue
MaxRequests == 3
\* the longest phone string tried
MaxPhoneLen == 16
\* the largest budget amount tried
MaxBudget == 2
\* the largest page number the pagination controls ask for
MaxPage == 2

\* ------------------------------------------------------------------ values

NoToken == "null"
NoUser == [id |-> "null", role |-> "null"]

\* a token left in storage by an earlier visit, and the tokens the server issues
StoredTokens == {"t0"}
ServerTokens == {"t1"}
\* the identities the server knows
Users == {[id |-> "u1", role |-> "user"], [id |-> "u2", role |-> "user"],
          [id |-> "a1", role |-> "admin"]}

\* answers of the remote API: a status with a response, or none (network error)
NetworkError == 0
Statuses == {200, 401, 403, 404, 409, 500, NetworkError}
\* the answers the auth endpoints are tried with
AuthStatuses == {200, 401, 500, NetworkError}

\* err.response?.data?.error of a failed answer: absent ("") or a text
ServerErrors == {"", "Forbidden"}

\* err.response?.data?.error || fallback; a network error has no response
ErrorOr(status, message, fallback) ==
    IF status # NetworkError /\ message # "" THEN message ELSE fallback

NoResponse == [id |-> 0, url |-> "none", status |-> NetworkError,
               body |-> [user |-> NoUser, token |-> NoToken],
               before |-> NoToken, after |-> NoToken]

\* ------------------------------------------------------------------ gateway

\* api.interceptors.response.use, second handler: the list of exempt paths
excludedPaths == {"/auth/me", "/auth/login", "/auth/register", "/auth/demo-login"}

\* a response interceptor that spares the token on the exempt paths
ResponseInterceptorExempting(store, url, status) ==
    IF status = 401 /\ url \notin excludedPaths THEN NoToken ELSE store

\* api.interceptors.response.use: the value under "token" after the
\* interceptor has handled an answer with this status to a request for url.
\* The test of excludedPaths guards an empty block (the redirect is
\* commented out), so the path does not matter.
ResponseInterceptor(store, url, status) ==
    IF status = 401
      THEN IF url \notin excludedPaths THEN NoToken ELSE NoToken
      ELSE store

\* a request interceptor that leaves the headers as the caller set them
RequestInterceptorPassing(store, explicit) == explicit

\* api.interceptors.request.use: the Authorization header of a request
\* sent while store is persisted; explicit is the header the caller set
RequestInterceptor(store, explicit) ==
    IF store # NoToken THEN store ELSE explicit

\* a request handed to axios: the interceptor fixes its header at send time
Request(origin, url, explicit) ==
    [id |-> issued + 1, origin |-> origin, url |-> url,
     auth |-> RequestInterceptor(localStorage, explicit), data |-> << >>]

Send(origin, url, explicit) ==
    /\ issued < MaxRequests
    /\ inflight' = inflight \cup {Request(origin, url, explicit)}
    /\ issued' = issued + 1

\* a request with a body (or, for a fetch, with what its closure holds)
SendData(origin, url, data) ==
    /\ issued < MaxRequests
    /\ inflight' = inflight \cup {[Request(origin, url, NoToken) EXCEPT !.data = data]}
    /\ issued' = issued + 1

\* ------------------------------------------------------------------ session store

\* a mount effect that leaves the store loading when nothing is persisted
MountWaiting ==
    /\ ~mounted
    /\ mounted' = TRUE
    /\ IF localStorage # NoToken
         THEN /\ token' = localStorage
              /\ Send("getProfile", "/auth/me", localStorage)
         ELSE UNCHANGED <<token, inflight, issued>>
    /\ UNCHANGED <<localStorage, user, loading, calls, lastResponse, thrown>>
    /\ UNCHANGED viewVars

\* AuthProvider, effect on mount
Mount ==
    /\ ~mounted
    /\ mounted' = TRUE
    /\ IF localStorage # NoToken
         THEN /\ token' = localStorage
              /\ Send("getProfile", "/auth/me", localStorage)
              /\ UNCHANGED loading
         ELSE /\ loading' = FALSE
              /\ UNCHANGED <<token, inflight, issued>>
    /\ UNCHANGED <<localStorage, user, calls, lastResponse, thrown>>
    /\ UNCHANGED viewVars

\* login(email, password): the call of authApi.login
Login ==
    /\ mounted
    /\ Send("login", "/auth/login", NoToken)
    /\ calls' = calls + 1
    /\ UNCHANGED <<localStorage, user, token, loading, mounted, lastResponse, thrown>>
    /\ UNCHANGED viewVars

\* demoLogin(role): the call of authApi.demoLogin
DemoLogin ==
    /\ mounted
    /\ Send("demoLogin", "/auth/demo-login", NoToken)
    /\ calls' = calls + 1
    /\ UNCHANGED <<localStorage, user, token, loading, mounted, lastResponse, thrown>>
    /\ UNCHANGED viewVars

\* a logout that leaves the persisted token in storage
LogoutKeepingStorage ==
    /\ mounted
    /\ calls < MaxRequests
    /\ calls' = calls + 1
    /\ user' = NoUser
    /\ token' = NoToken
    /\ UNCHANGED <<localStorage, loading, mounted, inflight, issued, lastResponse, thrown>>
    /\ UNCHANGED viewVars

\* logout()
Logout ==
    /\ mounted
    /\ calls < MaxRequests
    /\ calls' = calls + 1
    /\ user' = NoUser
    /\ token' = NoToken
    /\ localStorage' = NoToken
    /\ UNCHANGED <<loading, mounted, inflight, issued, lastResponse, thrown>>
    /\ UNCHANGED viewVars

\* authApi.register and the buyersApi calls of the views, seen from the
\* gateway: requests whose callers keep no session state
ApiCall(url) ==
    /\ mounted
    /\ Send("api", url, NoToken)
    /\ UNCHANGED <<localStorage, user, token, loading, mounted, calls, lastResponse, thrown>>
    /\ UNCHANGED viewVars

\* a mount effect whose catch leaves the token where it is
GetProfileSettledKeeping(ok, body, store) ==
    /\ user' = IF ok THEN body.user ELSE user
    /\ UNCHANGED token
    /\ localStorage' = store
    /\ loading' = FALSE
    /\ UNCHANGED thrown

\* AuthProvider, effect on mount: .then / .catch / .finally of getProfile,
\* run on its answer; store is the storage the response interceptor left
GetProfileSettled(ok, body, store) ==
    /\ user' = IF ok THEN body.user ELSE user
    /\ token' = IF ok THEN token ELSE NoToken
    /\ localStorage' = IF ok THEN store ELSE NoToken
    /\ loading' = FALSE
    /\ UNCHANGED thrown

\* a login whose catch clears the identity and swallows the failure
LoginSettledSwallowing(ok, body, store) ==
    /\ user' = IF ok THEN body.user ELSE NoUser
    /\ token' = IF ok THEN body.token ELSE NoToken
    /\ localStorage' = IF ok THEN body.token ELSE store
    /\ thrown' = FALSE
    /\ UNCHANGED loading

\* login / demoLogin after the await: setUser, setToken, setItem, or the
\* catch that rethrows
LoginSettled(ok, body, store) ==
    /\ user' = IF ok THEN body.user ELSE user
    /\ token' = IF ok THEN body.token ELSE token
    /\ localStorage' = IF ok THEN body.token ELSE store
    /\ thrown' = ~ok
    /\ UNCHANGED loading

\* response bodies of the auth endpoints: { user, token }
Bodies == [user : {u \in Users : u.id # "u2"}, token : ServerTokens]

\* the response interceptor runs on the answer to a request
Handled(req, status, body) ==
    lastResponse' = [id |-> req.id, url |-> req.url, status |-> status,
                     body |-> body, before |-> localStorage,
                     after |-> ResponseInterceptor(localStorage, req.url, status)]

\* a gateway that sends a failed request once more
RespondRetrying(req, status, body) ==
    /\ req \in inflight
    /\ inflight' = IF status = 200 \/ req.id > MaxRequests
                      THEN inflight \ {req}
                      ELSE (inflight \ {req}) \cup {[req EXCEPT !.id = req.id + MaxRequests]}
    /\ Handled(req, status, body)

\* the gateway's part of an answer: the request leaves the pending ones and
\* the response interceptor runs
Respond(req, status, body) ==
    /\ req \in inflight
    /\ inflight' = inflight \ {req}
    /\ Handled(req, status, body)

NoBody == [user |-> NoUser, token |-> NoToken]

\* the answer to a request of the session store or of a caller that keeps
\* no state: the interceptor, then the continuation, in the same task
SessionRespond(req, status, body) ==
    /\ req.origin \in {"getProfile", "login", "demoLogin", "api"}
    /\ Respond(req, status, IF status = 200 THEN body ELSE NoBody)
    /\ LET afterGateway == ResponseInterceptor(localStorage, req.url, status)
           ok == status = 200
       IN CASE req.origin = "getProfile" -> GetProfileSettled(ok, body, afterGateway)
            [] req.origin \in {"login", "demoLogin"} -> LoginSettled(ok, body, afterGateway)
            [] OTHER -> /\ localStorage' = afterGateway
                        /\ UNCHANGED <<user, token, loading, thrown>>
    /\ UNCHANGED <<mounted, issued, calls>>
    /\ UNCHANGED viewVars

SessionInit ==
    /\ localStorage \in StoredTokens \cup {NoToken}
    /\ user = NoUser
    /\ token = NoToken
    /\ loading = TRUE
    /\ mounted = FALSE
    /\ inflight = {}
    /\ issued = 0
    /\ calls = 0
    /\ lastResponse = NoResponse
    /\ thrown = FALSE

SessionNext ==
    \/ Mount
    \/ Login
    \/ DemoLogin
    \/ Logout
    \/ \E url \in {"/auth/register", "/buyers"} : ApiCall(url)
    \/ \E req \in inflight, status \in AuthStatuses, body \in Bodies :
           SessionRespond(req, status, body)

\* the remote API answers the profile check of the mount effect
ProfileSettles ==
    \E req \in inflight, status \in AuthStatuses, body \in Bodies :
        /\ req.origin = "getProfile"
        /\ SessionRespond(req, status, body)

\* no session: the store as constructed, nothing persisted, nothing sent
SessionIdle ==
    /\ localStorage = NoToken
    /\ user = NoUser
    /\ token = NoToken
    /\ loading = TRUE
    /\ mounted = FALSE
    /\ inflight = {}
    /\ issued = 0
    /\ calls = 0
    /\ lastResponse = NoResponse
    /\ thrown = FALSE

\* ------------------------------------------------------------------ validation schema

PropertyTypeEnum == {"Apartment", "Villa", "Plot", "Office", "Retail"}
BHKEnum == {"1", "2", "3", "4", "Studio"}

\* an absent string field; an absent number is << >>, a present one << n >>
Undefined == "undefined"

\* the candidates tried: the fields of the two cross-field rules as they
\* are, the empty option of the form's selects included; the other fields
\* (fullName, email, phone, city, purpose, timeline, source, status, notes,
\* tags) by the outcome of their own rules: all pass, a check fails (regex,
\* min, max: the parse goes on), or a type or enum is wrong (the parse of
\* the object is invalid)
BudgetInputs == {<< >>} \cup {<<n>> : n \in -1..MaxBudget}
Candidates ==
    [propertyType : PropertyTypeEnum \cup {""},
     bhk : BHKEnum \cup {Undefined, ""},
     budgetMin : BudgetInputs,
     budgetMax : BudgetInputs,
     others : {"valid", "dirty", "aborted"}]

\* JavaScript truthiness of an optional number and of an optional string
TruthyNumber(n) == n # << >> /\ n[1] # 0
TruthyString(str) == str \notin {Undefined, ""}

Issue(path, message) == [path |-> path, message |-> message]

\* z.object({...}): the issues of the field rules, in key order
FieldIssues(c) ==
    (IF c.others = "valid" THEN << >> ELSE <<Issue("others", "field rule")>>)
    \o (IF c.propertyType \in PropertyTypeEnum THEN << >>
        ELSE <<Issue("propertyType", "Invalid enum value")>>)
    \o (IF c.bhk \in BHKEnum \cup {Undefined} THEN << >>
        ELSE <<Issue("bhk", "Invalid enum value")>>)
    \o (IF c.budgetMin = << >> \/ c.budgetMin[1] >= 0 THEN << >>
        ELSE <<Issue("budgetMin", "Number must be greater than or equal to 0")>>)
    \o (IF c.budgetMax = << >> \/ c.budgetMax[1] >= 0 THEN << >>
        ELSE <<Issue("budgetMax", "Number must be greater than or equal to 0")>>)

\* z.object({...}): whether a wrong type or enum value made the object
\* invalid, in which case zod runs no refinement on it
ObjectAborted(c) ==
    \/ c.others = "aborted"
    \/ c.propertyType \notin PropertyTypeEnum
    \/ c.bhk \notin BHKEnum \cup {Undefined}

\* a first refinement that asks for bhk with Apartment only
BhkRefineApartmentOnly(data) ==
    IF data.propertyType = "Apartment" /\ ~TruthyString(data.bhk) THEN FALSE ELSE TRUE

\* first .refine: BHK required for Apartment and Villa
BhkRefine(data) ==
    IF data.propertyType \in {"Apartment", "Villa"} /\ ~TruthyString(data.bhk)
      THEN FALSE
      ELSE TRUE

\* second .refine: budget validation
BudgetRefine(data) ==
    IF TruthyNumber(data.budgetMin) /\ TruthyNumber(data.budgetMax)
      THEN data.budgetMax[1] >= data.budgetMin[1]
      ELSE TRUE

BhkMessage == "BHK is required for Apartment and Villa property types"
BudgetMessage == "Budget max must be greater than or equal to budget min"

\* the issues of the two refinements, in the order they are chained
RefineIssues(data) ==
    (IF BhkRefine(data) THEN << >> ELSE <<Issue("bhk", BhkMessage)>>)
    \o (IF BudgetRefine(data) THEN << >> ELSE <<Issue("budgetMax", BudgetMessage)>>)

\* a parse that accepts every record
SafeParseAccepting(c) == [success |-> TRUE, issues |-> << >>, data |-> c]

\* buyerSchema.safeParse
SafeParse(c) ==
    LET issues == FieldIssues(c) \o (IF ObjectAborted(c) THEN << >> ELSE RefineIssues(c))
    IN [success |-> issues = << >>, issues |-> issues, data |-> c]

\* whether some issue of a result is the message reported on the path
HasIssue(res, path, message) ==
    \E i \in 1..Len(res.issues) : res.issues[i] = Issue(path, message)

Validate ==
    /\ parsed = << >>
    /\ parsed' = <<SafeParse(candidate)>>
    /\ UNCHANGED <<candidate, phone, phoneParsed>>
    /\ UNCHANGED <<sessionVars, editVars, listVars, importVars, detailVars, deps>>

\* the decimal digits, as characters
Digits == <<"0", "1", "2", "3", "4", "5", "6", "7", "8", "9">>
IsDigit(ch) == \E d \in 1..10 : Digits[d] = ch

\* a pattern that takes any ten to fifteen characters
PhonePatternAnyCharacter(str) == Len(str) >= 10 /\ Len(str) <= 15

\* /^\d{10,15}$/.test(str): ten to fifteen characters, each of 0-9, from
\* the start of the string to its end
PhonePattern(str) ==
    /\ Len(str) >= 10
    /\ Len(str) <= 15
    /\ \A i \in 1..Len(str) : IsDigit(SubSeq(str, i, i))

PhoneMessage == "Phone must be 10-15 digits"

\* phoneSchema, as the phone field of buyerSchema: the issues for a string
PhoneSchema(str) ==
    IF PhonePattern(str) THEN << >> ELSE <<Issue("phone", PhoneMessage)>>

RECURSIVE DigitString(_)
\* a string of n digits
DigitString(n) ==
    IF n = 0 THEN "" ELSE DigitString(n - 1) \o Digits[(n % 10) + 1]

\* the string str with the character at position i replaced by ch
WithCharacter(str, i, ch) ==
    SubSeq(str, 1, i - 1) \o ch \o SubSeq(str, i + 1, Len(str))

\* the phone strings tried: digits alone, of every length up to the
\* bound, and the same with one character that is no digit
PhoneInputs ==
    {DigitString(n) : n \in 0..MaxPhoneLen}
    \cup UNION {{WithCharacter(DigitString(n), i, ch) :
                     i \in 1..n, ch \in {"a", "+", " ", "-", "\n"}} :
                 n \in 1..MaxPhoneLen}
    \cup {"12345", "9876543210"}

ValidatePhone ==
    /\ phoneParsed = << >>
    /\ phoneParsed' = <<PhoneSchema(phone)>>
    /\ UNCHANGED <<candidate, parsed, phone>>
    /\ UNCHANGED <<sessionVars, editVars, listVars, importVars, detailVars, deps>>

ValidationIdle ==
    /\ candidate = [propertyType |-> "", bhk |-> Undefined, budgetMin |-> << >>,
                    budgetMax |-> << >>, others |-> "valid"]
    /\ parsed = << >>
    /\ phone = ""
    /\ phoneParsed = << >>

ValidationNext == Validate

\* ------------------------------------------------------------------ edit view

NoBuyer == [id |-> "null", owner_id |-> "null", updated_at |-> "null",
            property_type |-> "", bhk |-> Undefined,
            budget_min |-> << >>, budget_max |-> << >>]

\* the records GET /buyers/:id may answer with; u1 owns them
BuyerRecords ==
    {[id |-> "b1", owner_id |-> "u1", updated_at |-> "v1",
      property_type |-> "Apartment", bhk |-> "2",
      budget_min |-> << >>, budget_max |-> << >>],
     [id |-> "b1", owner_id |-> "u1", updated_at |-> "v1",
      property_type |-> "Plot", bhk |-> Undefined,
      budget_min |-> <<1>>, budget_max |-> << >>]}

\* the values useForm holds before reset: the selects at their empty
\* option, so the enum fields among the others are invalid
EmptyForm == [propertyType |-> "", bhk |-> Undefined, budgetMin |-> << >>,
              budgetMax |-> << >>, others |-> "aborted"]

\* what the user may put into a field of the form
FormInputs ==
    [propertyType |-> {"Apartment", "Villa", "Plot"},
     bhk |-> {"", "2"},
     budgetMin |-> {<<1>>},
     budgetMax |-> {<<0>>},
     others |-> {"valid", "dirty", "aborted"}]

PermissionMessage == "You do not have permission to edit this buyer"
ConflictMessage ==
    "This record has been modified by another user. Please refresh the page and try again."

\* BuyerDetailPage: canEdit
canEdit(u, b) ==
    u # NoUser /\ b # NoBuyer /\ (u.role = "admin" \/ u.id = b.owner_id)

\* fetchBuyer: the check "if user can edit this buyer", true when it denies
EditDenied(u, buyerData) ==
    u.role # "admin" /\ u.id # buyerData.owner_id

\* EditBuyerPage: what the component returns
EditView ==
    IF loading \/ fetchLoading THEN "spinner"
    ELSE IF user = NoUser THEN "null"
    ELSE IF editError # "" /\ buyer = NoBuyer THEN "error"
    ELSE "form"

\* EditBuyerPage: the fetch effect, fetchBuyer up to the await
EditFetchEffect ==
    IF user # NoUser
      THEN /\ fetchLoading' = TRUE
           /\ editError' = ""
           /\ SendData("fetchBuyer", "/buyers/b1", <<user>>)
      ELSE UNCHANGED <<fetchLoading, editError, inflight, issued>>

\* EditBuyerPage: the two effects, run after the first render
EditMount ==
    /\ route = "edit"
    /\ ~editMounted
    /\ editMounted' = TRUE
    /\ deps' = <<user, loading>>
    /\ IF ~loading /\ user = NoUser
         THEN route' = "/login"
         ELSE UNCHANGED route
    /\ EditFetchEffect
    /\ UNCHANGED <<buyer, editLoading, form, errors>>
    /\ UNCHANGED <<localStorage, user, token, loading, mounted, calls, lastResponse, thrown>>
    /\ UNCHANGED <<validationVars, listVars, importVars, detailVars>>

\* fetchBuyer after the await; u is the user its closure holds
FetchBuyerSettled(u, status, buyerData, message) ==
    /\ fetchLoading' = FALSE
    /\ IF status = 200
         THEN /\ buyer' = buyerData
              /\ IF EditDenied(u, buyerData)
                   THEN /\ editError' = PermissionMessage
                        /\ UNCHANGED form
                   ELSE /\ form' = [propertyType |-> buyerData.property_type,
                                    bhk |-> buyerData.bhk,
                                    budgetMin |-> buyerData.budget_min,
                                    budgetMax |-> buyerData.budget_max,
                                    others |-> "valid"]
                        /\ UNCHANGED editError
         ELSE /\ editError' = CASE status = 404 -> "Buyer not found"
                                [] status = 403 -> PermissionMessage
                                [] OTHER -> ErrorOr(status, message, "Failed to fetch buyer")
              /\ UNCHANGED <<buyer, form>>
    /\ UNCHANGED <<editLoading, errors, editMounted, route>>

\* the user changes one field of the rendered form
EditField(field, value) ==
    /\ route = "edit"
    /\ EditView = "form"
    /\ field = "bhk" => form.propertyType \in {"Apartment", "Villa"}
    /\ form' = [form EXCEPT ![field] = value]
    /\ form' # form
    /\ UNCHANGED <<buyer, fetchLoading, editLoading, editError, errors, editMounted, route>>
    /\ UNCHANGED <<sessionVars, validationVars, listVars, importVars, detailVars, deps>>

\* onSubmit with every bhk dropped from the body
CleanedDataWithoutBhk(data, updatedAt) ==
    [propertyType |-> data.propertyType,
     bhk |-> Undefined,
     budgetMin |-> IF TruthyNumber(data.budgetMin) THEN data.budgetMin ELSE << >>,
     budgetMax |-> IF TruthyNumber(data.budgetMax) THEN data.budgetMax ELSE << >>,
     others |-> data.others,
     updatedAt |-> updatedAt]

\* onSubmit: cleanedData
CleanedData(data, updatedAt) ==
    [propertyType |-> data.propertyType,
     bhk |-> IF TruthyString(data.bhk) THEN data.bhk ELSE Undefined,
     budgetMin |-> IF TruthyNumber(data.budgetMin) THEN data.budgetMin ELSE << >>,
     budgetMax |-> IF TruthyNumber(data.budgetMax) THEN data.budgetMax ELSE << >>,
     others |-> data.others,
     updatedAt |-> updatedAt]

\* the paths of a result's issues
ErrorPaths(res) == {res.issues[i].path : i \in 1..Len(res.issues)}

\* the form is submitted: handleSubmit runs the resolver and, when it
\* accepts, onSubmit up to the await
HandleSubmit ==
    /\ route = "edit"
    /\ EditView = "form"
    /\ ~editLoading
    /\ LET res == SafeParse(form)
       IN /\ errors' = ErrorPaths(res)
          /\ IF res.success /\ buyer # NoBuyer
               THEN /\ editLoading' = TRUE
                    /\ editError' = ""
                    /\ SendData("updateBuyer", "/buyers/b1",
                                <<res.data, CleanedData(res.data, buyer.updated_at)>>)
               ELSE UNCHANGED <<editLoading, editError, inflight, issued>>
    /\ UNCHANGED <<buyer, fetchLoading, form, editMounted, route, deps>>
    /\ UNCHANGED <<localStorage, user, token, loading, mounted, calls, lastResponse, thrown>>
    /\ UNCHANGED <<validationVars, listVars, importVars, detailVars>>

\* an onSubmit whose catch has no branch for the conflict
OnSubmitSettledGeneric(status, message) ==
    /\ editLoading' = FALSE
    /\ IF status = 200
         THEN /\ route' = "/buyers/b1"
              /\ UNCHANGED editError
         ELSE /\ editError' = ErrorOr(status, message, "Failed to update buyer")
              /\ UNCHANGED route
    /\ UNCHANGED <<buyer, fetchLoading, form, errors, editMounted>>

\* onSubmit after the await
OnSubmitSettled(status, message) ==
    /\ editLoading' = FALSE
    /\ IF status = 200
         THEN /\ route' = "/buyers/b1"
              /\ UNCHANGED editError
         ELSE /\ editError' = IF status = 409 THEN ConflictMessage
                               ELSE ErrorOr(status, message, "Failed to update buyer")
              /\ UNCHANGED route
    /\ UNCHANGED <<buyer, fetchLoading, form, errors, editMounted>>

\* the answer to a request of the edit view
EditRespond(req, status, buyerData, message) ==
    /\ req.origin \in {"fetchBuyer", "updateBuyer"}
    /\ Respond(req, status, NoBody)
    /\ localStorage' = ResponseInterceptor(localStorage, req.url, status)
    /\ IF req.origin = "fetchBuyer"
         THEN FetchBuyerSettled(req.data[1], status, buyerData, message)
         ELSE OnSubmitSettled(status, message)
    /\ UNCHANGED <<user, token, loading, mounted, issued, calls, thrown>>
    /\ UNCHANGED <<validationVars, listVars, importVars, detailVars, deps>>

EditIdle ==
    /\ buyer = NoBuyer
    /\ fetchLoading = TRUE
    /\ editLoading = FALSE
    /\ editError = ""
    /\ form = EmptyForm
    /\ errors = {}
    /\ editMounted = FALSE
    /\ route = "edit"

EditNext ==
    \/ EditMount
    \/ \E field \in DOMAIN FormInputs : \E value \in FormInputs[field] : EditField(field, value)
    \/ HandleSubmit
    \/ \E req \in inflight, status \in Statuses, buyerData \in BuyerRecords,
          message \in ServerErrors :
           EditRespond(req, status, buyerData, message)

\* ------------------------------------------------------------------ list view

\* A string is the sequence of its characters, "" is << >>; the names of
\* cities, statuses and so on are written as one symbol.  A JavaScript
\* number is an integer or NaN.
Num(n) == [nan |-> FALSE, n |-> n]
NaN == [nan |-> TRUE, n |-> 0]

DigitValue(ch) == (CHOOSE d \in 1..10 : Digits[d] = ch) - 1

RECURSIVE NatToString(_)
NatToString(n) ==
    IF n < 10 THEN <<Digits[n + 1]>>
    ELSE NatToString(n \div 10) \o <<Digits[(n % 10) + 1]>>

\* Number.prototype.toString of an integer
NumberToString(num) ==
    IF num.n < 0 THEN <<"-">> \o NatToString(0 - num.n) ELSE NatToString(num.n)

RECURSIVE DigitPrefix(_)
DigitPrefix(str) ==
    IF str = << >> \/ ~IsDigit(Head(str)) THEN << >>
    ELSE <<Head(str)>> \o DigitPrefix(Tail(str))

RECURSIVE DigitsValue(_)
DigitsValue(str) ==
    IF str = << >> THEN 0
    ELSE 10 * DigitsValue(SubSeq(str, 1, Len(str) - 1)) + DigitValue(str[Len(str)])

\* Number.parseInt: an optional sign, then the longest run of digits; NaN
\* when there is none
parseInt(str) ==
    LET negative == str # << >> /\ Head(str) = "-"
        unsigned == IF str # << >> /\ Head(str) \in {"-", "+"} THEN Tail(str) ELSE str
        digits == DigitPrefix(unsigned)
    IN IF digits = << >> THEN NaN
       ELSE Num(IF negative THEN 0 - DigitsValue(digits) ELSE DigitsValue(digits))

\* the keys of the FilterState, in the order of the object literal
FilterKeys == <<"city", "propertyType", "status", "timeline", "search", "page",
                "sortBy", "sortOrder">>
StringKeys == {"city", "propertyType", "status", "timeline", "search", "sortBy", "sortOrder"}

Param(key, value) == [key |-> key, value |-> value]

HasParam(q, key) == \E i \in 1..Len(q) : q[i].key = key

\* searchParams.get(key) || fallback
GetOr(q, key, fallback) ==
    IF \E i \in 1..Len(q) : q[i].key = key /\ q[i].value # << >>
      THEN q[CHOOSE i \in 1..Len(q) :
                 /\ q[i].key = key
                 /\ \A j \in 1..(i - 1) : q[j].key # key].value
      ELSE fallback

\* the initial value of useState for filters
SeedFilters(q) ==
    [city |-> GetOr(q, "city", << >>),
     propertyType |-> GetOr(q, "propertyType", << >>),
     status |-> GetOr(q, "status", << >>),
     timeline |-> GetOr(q, "timeline", << >>),
     search |-> GetOr(q, "search", << >>),
     page |-> parseInt(GetOr(q, "page", <<"1">>)),
     sortBy |-> GetOr(q, "sortBy", <<"updatedAt">>),
     sortOrder |-> GetOr(q, "sortOrder", <<"desc">>)]

\* the test of the URL effect: value && value !== "" && value !== 1
Serialized(key, value) ==
    IF key = "page"
      THEN ~value.nan /\ value.n # 0 /\ value.n # 1
      ELSE value # << >>

RECURSIVE ParamsFrom(_, _)
ParamsFrom(f, i) ==
    IF i > Len(FilterKeys) THEN << >>
    ELSE LET key == FilterKeys[i]
         IN (IF Serialized(key, f[key])
               THEN <<Param(key, IF key = "page" THEN NumberToString(f[key]) ELSE f[key])>>
               ELSE << >>)
            \o ParamsFrom(f, i + 1)

\* the URL effect: the URLSearchParams built from the FilterState
SerializeFilters(f) == ParamsFrom(f, 1)

\* the URL effect, run with the FilterState f
UrlEffect(f) ==
    /\ query' = SerializeFilters(f)
    /\ navigation' = "replace"

\* the fetch effect, run with the FilterState f: fetchBuyers up to the await
FetchEffect(f) ==
    IF user # NoUser
      THEN /\ listLoading' = TRUE
           /\ listError' = ""
           /\ SendData("fetchBuyers", "/buyers", f)
      ELSE UNCHANGED <<listLoading, listError, inflight, issued>>

\* BuyersListPage: the three effects, run after the first render
ListMount ==
    /\ route = "/buyers"
    /\ ~listMounted
    /\ listMounted' = TRUE
    /\ deps' = <<user, loading>>
    /\ IF ~loading /\ user = NoUser
         THEN route' = "/login"
         ELSE UNCHANGED route
    /\ FetchEffect(filters)
    /\ UrlEffect(filters)
    /\ UNCHANGED <<filters, buyers, pagination, lastChange>>
    /\ UNCHANGED <<localStorage, user, token, loading, mounted, calls, lastResponse, thrown>>
    /\ UNCHANGED <<buyer, fetchLoading, editLoading, editError, form, errors, editMounted>>
    /\ UNCHANGED <<validationVars, importVars, detailVars>>

\* a setter that keeps the page where it was
FiltersAfterChangeKeepingPage(prev, key, value) ==
    [prev EXCEPT ![key] = value]

\* handleFilterChange: the FilterState the updater returns
FiltersAfterChange(prev, key, value) ==
    [[prev EXCEPT ![key] = value] EXCEPT !.page = IF key # "page" THEN Num(1) ELSE value]

\* BuyersListPage: what the component returns
ListView ==
    IF loading THEN "spinner"
    ELSE IF user = NoUser THEN "null"
    ELSE "list"

\* handleFilterChange(key, value), and the effects its state change runs
handleFilterChange(key, value) ==
    /\ route = "/buyers"
    /\ listMounted
    /\ ListView = "list"
    /\ issued < MaxRequests
    /\ filters' = FiltersAfterChange(filters, key, value)
    /\ lastChange' = <<key, value, filters>>
    /\ FetchEffect(filters')
    /\ UrlEffect(filters')
    /\ UNCHANGED <<buyers, pagination, listMounted, route, deps>>
    /\ UNCHANGED <<localStorage, user, token, loading, mounted, calls, lastResponse, thrown>>
    /\ UNCHANGED <<buyer, fetchLoading, editLoading, editError, form, errors, editMounted>>
    /\ UNCHANGED <<validationVars, importVars, detailVars>>

\* fetchBuyers after the await, showing an answer only while the
\* FilterState is still the one it was asked for
FetchBuyersSettledIfCurrent(status, params) ==
    /\ listLoading' = FALSE
    /\ IF status = 200
         THEN /\ buyers' = IF params = filters THEN <<params>> ELSE buyers
              /\ pagination' = IF params = filters THEN <<params>> ELSE pagination
              /\ UNCHANGED listError
         ELSE /\ listError' = "Failed to fetch buyers"
              /\ UNCHANGED <<buyers, pagination>>

\* fetchBuyers after the await; params is the FilterState it was called with
FetchBuyersSettled(status, params) ==
    /\ listLoading' = FALSE
    /\ IF status = 200
         THEN /\ buyers' = <<params>>
              /\ pagination' = <<params>>
              /\ UNCHANGED listError
         ELSE /\ listError' = "Failed to fetch buyers"
              /\ UNCHANGED <<buyers, pagination>>

\* the answer to a request of the list view
ListRespond(req, status) ==
    /\ req.origin = "fetchBuyers"
    /\ Respond(req, status, NoBody)
    /\ localStorage' = ResponseInterceptor(localStorage, req.url, status)
    /\ FetchBuyersSettled(status, req.data)
    /\ UNCHANGED <<filters, query, navigation, listMounted, lastChange, route, deps>>
    /\ UNCHANGED <<user, token, loading, mounted, issued, calls, thrown>>
    /\ UNCHANGED <<buyer, fetchLoading, editLoading, editError, form, errors, editMounted>>
    /\ UNCHANGED <<validationVars, importVars, detailVars>>

\* the values the filter controls offer
FilterInputs ==
    [city |-> {<< >>, <<"Mohali">>},
     propertyType |-> {<< >>, <<"Plot">>},
     status |-> {<< >>, <<"New">>},
     timeline |-> {<< >>, <<"0-3m">>},
     search |-> {<< >>, <<"r", "a", "j">>},
     page |-> {Num(n) : n \in 1..MaxPage}]

\* the URLs the list is opened with
PageParams == {<<"0">>, <<"3">>, <<"-", "1">>, <<"a", "b", "c">>}
InitialQueries ==
    {<< >>, <<Param("sortBy", <<"createdAt">>)>>}
    \cup {<<Param("page", p)>> : p \in PageParams}

ListIdle ==
    /\ query = << >>
    /\ filters = SeedFilters(query)
    /\ navigation = "none"
    /\ buyers = << >>
    /\ pagination = << >>
    /\ listLoading = TRUE
    /\ listError = ""
    /\ listMounted = FALSE
    /\ lastChange = << >>

ListNext ==
    \/ ListMount
    \/ \E key \in DOMAIN FilterInputs : \E value \in FilterInputs[key] :
           handleFilterChange(key, value)
    \/ \E req \in inflight, status \in {200, 401, 500} : ListRespond(req, status)

\* ------------------------------------------------------------------ CSV import and export

\* a test of the last three characters alone
endsWithExtension(str, suffix) ==
    /\ Len(str) >= Len(suffix) - 1
    /\ SubSeq(str, Len(str) - Len(suffix) + 2, Len(str)) = SubSeq(suffix, 2, Len(suffix))

\* String.prototype.endsWith
endsWith(str, suffix) ==
    /\ Len(str) >= Len(suffix)
    /\ SubSeq(str, Len(str) - Len(suffix) + 1, Len(str)) = suffix

RECURSIVE join(_, _)
\* Array.prototype.join
join(strs, separator) ==
    IF strs = << >> THEN ""
    ELSE IF Len(strs) = 1 THEN strs[1]
    ELSE strs[1] \o separator \o join(Tail(strs), separator)

\* the names of the files the user may pick
FileNames == {"leads.csv", "leads.txt", "leads.CSV", "csv"}

\* one entry of response.data.errors
RowError(row, messages) == [row |-> row, errors |-> messages]

\* the values of response.data.errors: << >> when the key is absent, else
\* << the array >>, which may be empty
RowErrorLists ==
    {<< >>,
     << << >> >>,
     << <<RowError(2, <<"Invalid email">>)>> >>,
     << <<RowError(2, <<"Invalid email", "Invalid phone">>), RowError(3, <<"City is required">>)>> >>}

\* the bodies POST /buyers/import may answer with
ImportBodies ==
    [importedCount : {0, 2},
     errors : RowErrorLists,
     error : {"", "Invalid CSV format"}]

NoImportBody == [importedCount |-> 0, errors |-> << >>, error |-> ""]

ExtensionMessage == "Please select a CSV file"
ImportDefaultMessage == "Failed to import CSV"

\* handleCsvImport: `Row ${error.row}: ${error.errors.join(", ")}`
RowLine(e) == "Row " \o ToString(e.row) \o ": " \o join(e.errors, ", ")

RECURSIVE RowLines(_)
\* handleCsvImport: errors.map(...)
RowLines(rows) ==
    IF rows = << >> THEN << >> ELSE <<RowLine(Head(rows))>> \o RowLines(Tail(rows))

\* handleCsvImport: the text of the per-row errors
RowErrorsMessage(rows) == "Import failed:\n" \o join(RowLines(rows), "\n")

\* handleCsvImport: the text of the success alert
SuccessMessage(count) == "Successfully imported " \o ToString(count) \o " buyers"

\* handleCsvImport, the catch block: the import error shown for a failed
\* answer; hasResponse is false for a network error
ImportFailureMessage(hasResponse, body) ==
    IF hasResponse /\ body.errors # << >>
      THEN RowErrorsMessage(body.errors[1])
      ELSE IF hasResponse /\ body.error # "" THEN body.error ELSE ImportDefaultMessage

\* handleCsvImport(event) with a file chosen, up to the await
handleCsvImport(name) ==
    /\ route = "/buyers"
    /\ listMounted
    /\ ListView = "list"
    /\ ~csvImporting
    /\ IF ~endsWith(name, ".csv")
         THEN /\ importError' = ExtensionMessage
              /\ UNCHANGED <<csvImporting, importSuccess, inflight, issued>>
         ELSE /\ csvImporting' = TRUE
              /\ importError' = ""
              /\ importSuccess' = ""
              /\ SendData("importCSV", "/buyers/import", <<name, filters>>)
    /\ UNCHANGED csvExporting
    /\ UNCHANGED <<localStorage, user, token, loading, mounted, calls, lastResponse, thrown>>
    /\ UNCHANGED <<validationVars, editVars, listVars, detailVars, deps>>

\* the answer to POST /buyers/import: handleCsvImport after the await.  On
\* success it calls fetchBuyers, which sends a list request with the
\* FilterState the handler's closure holds.
ImportRespond(req, status, body) ==
    /\ req \in inflight
    /\ req.origin = "importCSV"
    /\ Handled(req, status, IF status = NetworkError THEN NoImportBody ELSE body)
    /\ localStorage' = ResponseInterceptor(localStorage, req.url, status)
    /\ csvImporting' = FALSE
    /\ IF status = 200
         THEN /\ issued < MaxRequests
              /\ importSuccess' = SuccessMessage(body.importedCount)
              /\ listLoading' = TRUE
              /\ listError' = ""
              /\ inflight' = (inflight \ {req})
                                 \cup {[Request("fetchBuyers", "/buyers", NoToken)
                                           EXCEPT !.data = req.data[2]]}
              /\ issued' = issued + 1
              /\ UNCHANGED importError
         ELSE /\ importError' = ImportFailureMessage(status # NetworkError, body)
              /\ inflight' = inflight \ {req}
              /\ UNCHANGED <<importSuccess, listLoading, listError, issued>>
    /\ UNCHANGED csvExporting
    /\ UNCHANGED <<filters, query, navigation, buyers, pagination, listMounted, lastChange>>
    /\ UNCHANGED <<user, token, loading, mounted, calls, thrown>>
    /\ UNCHANGED <<validationVars, editVars, detailVars, deps>>

\* the Dismiss button of the import error alert
DismissImportError ==
    /\ route = "/buyers"
    /\ ListView = "list"
    /\ importError # ""
    /\ importError' = ""
    /\ UNCHANGED <<csvImporting, csvExporting, importSuccess>>
    /\ UNCHANGED <<sessionVars, validationVars, editVars, listVars, detailVars, deps>>

\* the Dismiss button of the import success alert
DismissImportSuccess ==
    /\ route = "/buyers"
    /\ ListView = "list"
    /\ importSuccess # ""
    /\ importSuccess' = ""
    /\ UNCHANGED <<csvImporting, csvExporting, importError>>
    /\ UNCHANGED <<sessionVars, validationVars, editVars, listVars, detailVars, deps>>

\* handleCsvExport up to the await; the button is disabled while there are
\* no rows
handleCsvExport ==
    /\ route = "/buyers"
    /\ listMounted
    /\ ListView = "list"
    /\ ~csvExporting
    /\ buyers # << >>
    /\ csvExporting' = TRUE
    /\ SendData("exportCSV", "/buyers/export", filters)
    /\ UNCHANGED <<csvImporting, importError, importSuccess>>
    /\ UNCHANGED <<localStorage, user, token, loading, mounted, calls, lastResponse, thrown>>
    /\ UNCHANGED <<validationVars, editVars, listVars, detailVars, deps>>

\* the answer to GET /buyers/export: handleCsvExport after the await
ExportRespond(req, status) ==
    /\ req.origin = "exportCSV"
    /\ Respond(req, status, NoBody)
    /\ localStorage' = ResponseInterceptor(localStorage, req.url, status)
    /\ csvExporting' = FALSE
    /\ listError' = IF status = 200 THEN listError ELSE "Failed to export CSV"
    /\ UNCHANGED <<csvImporting, importError, importSuccess>>
    /\ UNCHANGED <<filters, query, navigation, buyers, pagination, listLoading, listMounted,
                   lastChange>>
    /\ UNCHANGED <<user, token, loading, mounted, issued, calls, thrown>>
    /\ UNCHANGED <<validationVars, editVars, detailVars, deps>>

ImportIdle ==
    /\ csvImporting = FALSE
    /\ csvExporting = FALSE
    /\ importError = ""
    /\ importSuccess = ""

\* the statuses the import and export endpoints are tried with
ImportStatuses == {200, 400, 500, NetworkError}

ImportNext ==
    \/ ListMount
    \/ \E req \in inflight, status \in {200, 500} : ListRespond(req, status)
    \/ \E name \in FileNames : handleCsvImport(name)
    \/ \E req \in inflight, status \in ImportStatuses, body \in ImportBodies :
           ImportRespond(req, status, body)
    \/ DismissImportError
    \/ DismissImportSuccess
    \/ handleCsvExport
    \/ \E req \in inflight, status \in {200, 500} : ExportRespond(req, status)

\* ------------------------------------------------------------------ detail view

\* BuyerDetailPage: what the component returns
DetailView ==
    IF loading THEN "spinner"
    ELSE IF user = NoUser THEN "null"
    ELSE IF detailLoading THEN "loading"
    ELSE IF detailError # "" THEN "error"
    ELSE IF detailBuyer # NoBuyer THEN "record"
    ELSE "empty"

\* BuyerDetailPage: fetchBuyer up to the await
DetailFetchEffect ==
    IF user # NoUser
      THEN /\ detailLoading' = TRUE
           /\ detailError' = ""
           /\ SendData("getBuyer", "/buyers/b1", << >>)
      ELSE UNCHANGED <<detailLoading, detailError, inflight, issued>>

\* BuyerDetailPage: the two effects, run after the first render
DetailMount ==
    /\ route = "/buyers/b1"
    /\ ~detailMounted
    /\ detailMounted' = TRUE
    /\ deps' = <<user, loading>>
    /\ IF ~loading /\ user = NoUser
         THEN route' = "/login"
         ELSE UNCHANGED route
    /\ DetailFetchEffect
    /\ UNCHANGED <<detailBuyer, deleteLoading, dialog>>
    /\ UNCHANGED <<localStorage, user, token, loading, mounted, calls, lastResponse, thrown>>
    /\ UNCHANGED <<buyer, fetchLoading, editLoading, editError, form, errors, editMounted>>
    /\ UNCHANGED <<validationVars, listVars, importVars>>

\* BuyerDetailPage: fetchBuyer after the await
DetailFetchSettled(status, buyerData, message) ==
    /\ detailLoading' = FALSE
    /\ IF status = 200
         THEN /\ detailBuyer' = buyerData
              /\ UNCHANGED detailError
         ELSE /\ detailError' = IF status = 404 THEN "Buyer not found"
                                 ELSE ErrorOr(status, message, "Failed to fetch buyer")
              /\ UNCHANGED detailBuyer

\* a handler that sends the request whatever the prompt answered
handleDeleteUnconfirmed(confirmed) ==
    /\ route = "/buyers/b1"
    /\ DetailView = "record"
    /\ canEdit(user, detailBuyer)
    /\ ~deleteLoading
    /\ dialog' = IF confirmed THEN "confirm: ok" ELSE "confirm: cancel"
    /\ deleteLoading' = TRUE
    /\ SendData("deleteBuyer", "/buyers/b1", << >>)
    /\ UNCHANGED <<detailBuyer, detailLoading, detailError, detailMounted>>
    /\ UNCHANGED <<localStorage, user, token, loading, mounted, calls, lastResponse, thrown>>
    /\ UNCHANGED <<validationVars, editVars, listVars, importVars, deps>>

\* handleDelete up to the await; confirmed is the answer to window.confirm
handleDelete(confirmed) ==
    /\ route = "/buyers/b1"
    /\ DetailView = "record"
    /\ canEdit(user, detailBuyer)
    /\ ~deleteLoading
    /\ IF confirmed
         THEN /\ dialog' = "confirm: ok"
              /\ deleteLoading' = TRUE
              /\ SendData("deleteBuyer", "/buyers/b1", << >>)
         ELSE /\ dialog' = "confirm: cancel"
              /\ UNCHANGED <<deleteLoading, inflight, issued>>
    /\ UNCHANGED <<detailBuyer, detailLoading, detailError, detailMounted>>
    /\ UNCHANGED <<localStorage, user, token, loading, mounted, calls, lastResponse, thrown>>
    /\ UNCHANGED <<validationVars, editVars, listVars, importVars, deps>>

\* handleDelete after the await
DeleteSettled(status, message) ==
    /\ deleteLoading' = FALSE
    /\ IF status = 200
         THEN /\ route' = "/buyers"
              /\ UNCHANGED dialog
         ELSE /\ dialog' = "alert: " \o ErrorOr(status, message, "Failed to delete buyer")
              /\ UNCHANGED route

\* the answer to a request of the detail view
DetailRespond(req, status, buyerData, message) ==
    /\ req.origin \in {"getBuyer", "deleteBuyer"}
    /\ Respond(req, status, NoBody)
    /\ localStorage' = ResponseInterceptor(localStorage, req.url, status)
    /\ IF req.origin = "getBuyer"
         THEN /\ DetailFetchSettled(status, buyerData, message)
              /\ UNCHANGED <<deleteLoading, dialog, route>>
         ELSE /\ DeleteSettled(status, message)
              /\ UNCHANGED <<detailBuyer, detailLoading, detailError>>
    /\ UNCHANGED detailMounted
    /\ UNCHANGED <<user, token, loading, mounted, issued, calls, thrown>>
    /\ UNCHANGED <<buyer, fetchLoading, editLoading, editError, form, errors, editMounted>>
    /\ UNCHANGED <<validationVars, listVars, importVars, deps>>

DetailIdle ==
    /\ detailBuyer = NoBuyer
    /\ detailLoading = TRUE
    /\ detailError = ""
    /\ deleteLoading = FALSE
    /\ detailMounted = FALSE
    /\ dialog = "none"

DetailNext ==
    \/ DetailMount
    \/ \E confirmed \in BOOLEAN : handleDelete(confirmed)
    \/ \E req \in inflight, status \in Statuses, buyerData \in BuyerRecords,
          message \in ServerErrors :
           DetailRespond(req, status, buyerData, message)

\* no effect of a view has run
NoDeps == <<NoUser, TRUE>>
NoEffects == deps = NoDeps

\* ------------------------------------------------------------------ the pages under the session store

\* The three pages read user and loading from the session store and list
\* them as dependencies of their effects; deps holds the values the effects
\* of the page shown last ran with.  React runs the effects of a render
\* before it handles the next event, so nothing else happens while an
\* effect is due.

Pages == {"/login", "/buyers", "/buyers/b1", "edit"}

\* whether the effects of the page shown have run at least once
PageMounted ==
    CASE route = "/buyers" -> listMounted
      [] route = "/buyers/b1" -> detailMounted
      [] route = "edit" -> editMounted
      [] OTHER -> TRUE

\* the page shown has effects to run: its first, or those whose
\* dependencies changed
EffectsPending == route # "/login" /\ (~PageMounted \/ deps # <<user, loading>>)

\* the redirect effect of each page, dependencies [user, authLoading, router]
RedirectEffect ==
    IF ~loading /\ user = NoUser THEN route' = "/login" ELSE UNCHANGED route

\* BuyersListPage: the effects whose dependencies changed
ListEffects ==
    /\ route = "/buyers"
    /\ listMounted
    /\ deps # <<user, loading>>
    /\ deps' = <<user, loading>>
    /\ RedirectEffect
    /\ IF deps[1] # user
         THEN FetchEffect(filters)
         ELSE UNCHANGED <<listLoading, listError, inflight, issued>>
    /\ UNCHANGED <<filters, query, navigation, buyers, pagination, listMounted, lastChange>>
    /\ UNCHANGED <<localStorage, user, token, loading, mounted, calls, lastResponse, thrown>>
    /\ UNCHANGED <<buyer, fetchLoading, editLoading, editError, form, errors, editMounted>>
    /\ UNCHANGED <<validationVars, importVars, detailVars>>

\* BuyerDetailPage: the effects whose dependencies changed
DetailEffects ==
    /\ route = "/buyers/b1"
    /\ detailMounted
    /\ deps # <<user, loading>>
    /\ deps' = <<user, loading>>
    /\ RedirectEffect
    /\ IF deps[1] # user
         THEN DetailFetchEffect
         ELSE UNCHANGED <<detailLoading, detailError, inflight, issued>>
    /\ UNCHANGED <<detailBuyer, deleteLoading, detailMounted, dialog>>
    /\ UNCHANGED <<localStorage, user, token, loading, mounted, calls, lastResponse, thrown>>
    /\ UNCHANGED <<buyer, fetchLoading, editLoading, editError, form, errors, editMounted>>
    /\ UNCHANGED <<validationVars, listVars, importVars>>

\* EditBuyerPage: the effects whose dependencies changed
EditEffects ==
    /\ route = "edit"
    /\ editMounted
    /\ deps # <<user, loading>>
    /\ deps' = <<user, loading>>
    /\ RedirectEffect
    /\ IF deps[1] # user
         THEN EditFetchEffect
         ELSE UNCHANGED <<fetchLoading, editError, inflight, issued>>
    /\ UNCHANGED <<buyer, editLoading, form, errors, editMounted>>
    /\ UNCHANGED <<localStorage, user, token, loading, mounted, calls, lastResponse, thrown>>
    /\ UNCHANGED <<validationVars, listVars, importVars, detailVars>>

\* the requests a page's component sends
PageOrigins(page) ==
    CASE page = "/buyers" -> {"fetchBuyers", "importCSV", "exportCSV"}
      [] page = "/buyers/b1" -> {"getBuyer", "deleteBuyer"}
      [] page = "edit" -> {"fetchBuyer", "updateBuyer"}
      [] OTHER -> {}

\* the edit page's state as constructed
EditUnmounted ==
    /\ buyer = NoBuyer
    /\ fetchLoading = TRUE
    /\ editLoading = FALSE
    /\ editError = ""
    /\ form = EmptyForm
    /\ errors = {}
    /\ editMounted = FALSE

\* the user follows a link to a page: its component is constructed anew.
\* A page is opened again only once the requests of its earlier instance
\* are answered, and a page that fetches only while a request may be sent.
Navigate(page) ==
    /\ page # route
    /\ page = "/login" \/ issued < MaxRequests
    /\ \A req \in inflight : req.origin \notin PageOrigins(page)
    /\ route' = page
    /\ buyer' = NoBuyer
    /\ fetchLoading' = TRUE
    /\ editLoading' = FALSE
    /\ editError' = ""
    /\ form' = EmptyForm
    /\ errors' = {}
    /\ editMounted' = FALSE
    /\ query' = << >>
    /\ filters' = SeedFilters(<< >>)
    /\ navigation' = "none"
    /\ buyers' = << >>
    /\ pagination' = << >>
    /\ listLoading' = TRUE
    /\ listError' = ""
    /\ listMounted' = FALSE
    /\ lastChange' = << >>
    /\ csvImporting' = FALSE
    /\ csvExporting' = FALSE
    /\ importError' = ""
    /\ importSuccess' = ""
    /\ detailBuyer' = NoBuyer
    /\ detailLoading' = TRUE
    /\ detailError' = ""
    /\ deleteLoading' = FALSE
    /\ detailMounted' = FALSE
    /\ dialog' = "none"
    /\ deps' = NoDeps
    /\ UNCHANGED <<sessionVars, validationVars>>

\* the answers the pages' requests are tried with under the session store
AppStatuses == {200, 401, 500}
AppRecord ==
    [id |-> "b1", owner_id |-> "u1", updated_at |-> "v1",
     property_type |-> "Apartment", bhk |-> "2",
     budget_min |-> << >>, budget_max |-> << >>]
AppImportBody == [importedCount |-> 2, errors |-> << >>, error |-> ""]

\* the effects React has to run
AppEffects ==
    \/ ListMount
    \/ DetailMount
    \/ EditMount
    \/ ListEffects
    \/ DetailEffects
    \/ EditEffects

\* the answers of the remote API
AppResponses ==
    /\ ~EffectsPending
    /\ \E req \in inflight, status \in AppStatuses :
           \/ \E body \in Bodies : SessionRespond(req, status, body)
           \/ ListRespond(req, status)
           \/ DetailRespond(req, status, AppRecord, "")
           \/ EditRespond(req, status, AppRecord, "")
           \/ ImportRespond(req, status, AppImportBody)
           \/ ExportRespond(req, status)

\* what the user does
AppActions ==
    /\ ~EffectsPending
    /\ \/ Mount
       \/ Login
       \/ Logout
       \/ \E page \in Pages : Navigate(page)
       \/ HandleSubmit
       \/ handleDelete(TRUE)
       \/ handleCsvImport("leads.csv")
       \/ handleCsvExport

AppInit ==
    /\ SessionInit
    /\ ValidationIdle
    /\ EditUnmounted
    /\ route = "/login"
    /\ ListIdle
    /\ ImportIdle
    /\ DetailIdle
    /\ NoEffects

AppNext == AppEffects \/ AppResponses \/ AppActions

\* ------------------------------------------------------------------ specifications

vars == <<sessionVars, viewVars>>

\* a signed-in session, settled: the state the views are opened in
SignedIn ==
    /\ user \in Users
    /\ token \in ServerTokens
    /\ localStorage = token
    /\ loading = FALSE
    /\ mounted = TRUE
    /\ inflight = {}
    /\ issued = 0
    /\ calls = 0
    /\ lastResponse = NoResponse
    /\ thrown = FALSE

Init == SessionInit /\ ValidationIdle /\ EditIdle /\ ListIdle /\ ImportIdle /\ DetailIdle /\ NoEffects

Next == SessionNext

ValidationInit ==
    /\ candidate \in Candidates
    /\ parsed = << >>
    /\ phone = ""
    /\ phoneParsed = << >>
    /\ SessionIdle
    /\ EditIdle
    /\ ListIdle
    /\ ImportIdle
    /\ DetailIdle
    /\ NoEffects

\* a signed-in user opens /buyers/b1/edit
EditInit ==
    SignedIn /\ EditIdle /\ ValidationIdle /\ ListIdle /\ ImportIdle /\ DetailIdle /\ NoEffects

\* a signed-in user opens /buyers with some query string
ListInit ==
    /\ SignedIn
    /\ user.id = "u1"
    /\ ValidationIdle
    /\ buyer = NoBuyer
    /\ fetchLoading = TRUE
    /\ editLoading = FALSE
    /\ editError = ""
    /\ form = EmptyForm
    /\ errors = {}
    /\ editMounted = FALSE
    /\ route = "/buyers"
    /\ query \in InitialQueries
    /\ filters = SeedFilters(query)
    /\ navigation = "none"
    /\ buyers = << >>
    /\ pagination = << >>
    /\ listLoading = TRUE
    /\ listError = ""
    /\ listMounted = FALSE
    /\ lastChange = << >>
    /\ ImportIdle
    /\ DetailIdle
    /\ NoEffects

\* a signed-in user opens /buyers, to import or export
ImportInit == ListInit /\ query = << >>

\* a signed-in user opens /buyers/b1
DetailInit ==
    /\ SignedIn
    /\ ValidationIdle
    /\ EditUnmounted
    /\ route = "/buyers/b1"
    /\ ListIdle
    /\ ImportIdle
    /\ DetailIdle
    /\ NoEffects

\* phoneSchema applied to one string
PhoneInit ==
    /\ phone \in PhoneInputs
    /\ phoneParsed = << >>
    /\ candidate = [propertyType |-> "", bhk |-> Undefined, budgetMin |-> << >>,
                    budgetMax |-> << >>, others |-> "valid"]
    /\ parsed = << >>
    /\ SessionIdle
    /\ EditIdle
    /\ ListIdle
    /\ ImportIdle
    /\ DetailIdle
    /\ NoEffects

PhoneNext == ValidatePhone

\* the session store and the gateway
Spec == Init /\ [][Next]_vars

\* the session store and the gateway; React runs the mount effect and
\* the profile check is answered or fails
SpecSettle == Init /\ [][Next]_vars /\ WF_vars(Mount) /\ WF_vars(ProfileSettles)

\* the buyer schema applied to one candidate record
SpecValidation == ValidationInit /\ [][ValidationNext]_vars

\* the phone rule applied to one string
SpecPhone == PhoneInit /\ [][PhoneNext]_vars

\* the edit view of one record, opened by a signed-in user
SpecEdit == EditInit /\ [][EditNext]_vars

\* the detail view of one record, opened by a signed-in user
SpecDetail == DetailInit /\ [][DetailNext]_vars

\* the list view, opened by a signed-in user
SpecList == ListInit /\ [][ListNext]_vars

\* the three pages under the session store; React runs the effects that
\* are due and the remote API answers every request
SpecApp == AppInit /\ [][AppNext]_vars /\ WF_vars(AppEffects) /\ WF_vars(AppResponses)

\* the CSV import and export of the list view
SpecImport == ImportInit /\ [][ImportNext]_vars

\* ------------------------------------------------------------------ C1

UpdatesInFlight == {req \in inflight : req.origin = "updateBuyer"}

\* C2 as stated: once the record is fetched, an identity that is neither
\* an admin nor the record's owner is offered no editable form and has no
\* update request issued
C2_AsStated ==
    (buyer # NoBuyer /\ ~canEdit(user, buyer)) =>
        /\ EditView # "form"
        /\ UpdatesInFlight = {}

\* ------------------------------------------------------------------ C3

\* both budgets are given, none negative
BothBudgets(c) ==
    /\ c.budgetMin # << >> /\ c.budgetMin[1] >= 0
    /\ c.budgetMax # << >> /\ c.budgetMax[1] >= 0

\* C3 as stated: a record whose field rules let the cross-field rules run
\* is rejected with the budget error on budgetMax whenever both budgets are
\* given and budgetMax < budgetMin, a budgetMax of 0 included; with either
\* budget undefined there is no budget error
C3_AsStated ==
    parsed # << >> /\ ~ObjectAborted(candidate) =>
        /\ (BothBudgets(candidate) /\ candidate.budgetMax[1] < candidate.budgetMin[1]) =>
               /\ ~parsed[1].success
               /\ HasIssue(parsed[1], "budgetMax", BudgetMessage)
        /\ (candidate.budgetMin = << >> \/ candidate.budgetMax = << >>) =>
               ~HasIssue(parsed[1], "budgetMax", BudgetMessage)

\* ------------------------------------------------------------------ C4

\* the budgets and the other fields of c break no rule
RestValid(c) ==
    /\ c.others = "valid"
    /\ c.budgetMin = << >> \/ c.budgetMin[1] >= 0
    /\ c.budgetMax = << >> \/ c.budgetMax[1] >= 0
    /\ BothBudgets(c) => c.budgetMax[1] >= c.budgetMin[1]

BhkPresent(r) == r.bhk \in BHKEnum

\* C5 as stated: every record the resolver accepted and every update body
\* sent has bhk present if and only if its propertyType is Apartment or Villa
C5_AsStated ==
    \A req \in UpdatesInFlight :
        /\ BhkPresent(req.data[1]) <=> req.data[1].propertyType \in {"Apartment", "Villa"}
        /\ BhkPresent(req.data[2]) <=> req.data[2].propertyType \in {"Apartment", "Villa"}

\* C5 (amended): every record the resolver accepted and every update body
\* sent has bhk present if its propertyType is Apartment or Villa; with
\* Plot, Office or Retail bhk may be present or absent
C5_BhkPresentWhenRequired ==
    \A req \in UpdatesInFlight :
        /\ req.data[1].propertyType \in {"Apartment", "Villa"} => BhkPresent(req.data[1])
        /\ req.data[2].propertyType \in {"Apartment", "Villa"} => BhkPresent(req.data[2])

\* an update in flight for a Villa, its bhk in the body
C5_Witness ==
    \E req \in UpdatesInFlight :
        /\ req.data[2].propertyType = "Villa"
        /\ req.data[2].bhk = "2"

\* ------------------------------------------------------------------ C6

\* the restore has run alone: the profile check is the only request made,
\* it is answered, and login, demoLogin and logout were not called
RestoreSettledAlone ==
    /\ mounted
    /\ issued = 1
    /\ calls = 0
    /\ inflight = {}
    /\ lastResponse.url = "/auth/me"

\* C6: a restore of a persisted token that the profile check accepts ends
\* with loading false, the returned identity and the token kept (in memory
\* and in storage); one it rejects ends with loading false, no identity, no
\* in-memory token and the persisted token removed
C6_SessionRestore ==
    RestoreSettledAlone =>
        /\ loading = FALSE
        /\ IF lastResponse.status = 200
             THEN /\ user = lastResponse.body.user
                  /\ token = lastResponse.before
                  /\ localStorage = lastResponse.before
                  /\ token # NoToken
             ELSE /\ user = NoUser
                  /\ token = NoToken
                  /\ localStorage = NoToken

\* a restore the profile check rejected with a server error
C6_Witness ==
    /\ RestoreSettledAlone
    /\ lastResponse.status = 500
    /\ lastResponse.before # NoToken
    /\ localStorage = NoToken
    /\ ~loading

\* ------------------------------------------------------------------ C7

\* C7 as stated: the FilterState of the list view survives the round trip
\* through the URL: serialized as the URL effect does and parsed again as
\* the seeding does, it is the same in every field
C7_AsStated == SeedFilters(SerializeFilters(filters)) = filters

\* ------------------------------------------------------------------ C8

FilterDefaults ==
    [city |-> << >>, propertyType |-> << >>, status |-> << >>, timeline |-> << >>,
     search |-> << >>, page |-> Num(1), sortBy |-> <<"updatedAt">>, sortOrder |-> <<"desc">>]

NonDefault(f, key) ==
    /\ key \in StringKeys => f[key] # << >>
    /\ f[key] # FilterDefaults[key]

\* C8 as stated: once the effects have run the URL was written with a
\* history replace, and it has a parameter for a field exactly when the
\* field is non-empty and differs from its default, so none for sortBy and
\* sortOrder at their defaults
C8_AsStated ==
    listMounted =>
        /\ navigation = "replace"
        /\ \A i \in 1..Len(FilterKeys) :
               HasParam(query, FilterKeys[i]) <=> NonDefault(filters, FilterKeys[i])

\* ------------------------------------------------------------------ C9

\* C9: after handleFilterChange(key, value) the field key holds value, page
\* is 1 when key is not page (whatever it was) and the given number when it
\* is, and every other field is as before
C9_FilterChange ==
    lastChange # << >> =>
        LET key == lastChange[1]
            value == lastChange[2]
            prev == lastChange[3]
        IN /\ filters[key] = value
           /\ key # "page" => filters.page = Num(1)
           /\ \A i \in 1..Len(FilterKeys) :
                  FilterKeys[i] \notin {key, "page"} => filters[FilterKeys[i]] = prev[FilterKeys[i]]

\* the city is set while the list is on page 3: the page is back at 1
C9_Witness ==
    /\ lastChange # << >>
    /\ lastChange[1] = "city"
    /\ lastChange[2] = <<"Mohali">>
    /\ lastChange[3].page = Num(3)
    /\ filters.page = Num(1)
    /\ filters.city = <<"Mohali">>

\* ------------------------------------------------------------------ C10

\* C10: list fetches are last-resolved-wins: whenever a fetch is answered
\* with success, the rows and the page info shown become those of its own
\* query, whether or not a later fetch was issued or answered before
C10_LastResolvedWins ==
    [][\A req \in inflight :
          (req.origin = "fetchBuyers" /\ req \notin inflight' /\ lastResponse'.status = 200)
              => (buyers' = <<req.data>> /\ pagination' = <<req.data>>)]_vars

\* every fetch is answered, the one issued last with success and before an
\* earlier one, whose rows are shown for a FilterState that is no longer
\* the current one
C10_Witness ==
    /\ inflight = {}
    /\ ~listLoading
    /\ listError = ""
    /\ lastResponse.status = 200
    /\ lastResponse.id < issued
    /\ buyers # << >>
    /\ buyers[1] # filters
    /\ pagination = buyers

\* ------------------------------------------------------------------ C11

ImportsInFlight == {req \in inflight : req.origin = "importCSV"}

\* an answer's body reports at least one row in error
HasRowErrors(body) == body.errors # << >> /\ body.errors[1] # << >>

\* C11 as stated: an answer that accepts the file and carries per-row
\* errors is shown as per-row errors (one line per row with the row number
\* and its field errors) and not as success; an answer that rejects the
\* whole file is shown as the server's error message or the static default
C11_AsStated ==
    [][\A req \in ImportsInFlight : req \notin inflight' =>
          LET status == lastResponse'.status
              body == lastResponse'.body
          IN /\ (status = 200 /\ HasRowErrors(body)) =>
                    /\ importError' = RowErrorsMessage(body.errors[1])
                    /\ importSuccess' = ""
             /\ (status # 200 /\ body.errors = << >>) =>
                    /\ importError' = (IF body.error # "" THEN body.error
                                       ELSE ImportDefaultMessage)
                    /\ importSuccess' = ""]_vars

\* ------------------------------------------------------------------ C12

\* the file names tried that do not end with ".csv"
OtherNames == {"leads.txt", "leads.CSV", "csv"}

\* C12: when the chosen file's name does not end with ".csv",
\* handleCsvImport sets the import error to the extension message, sends no
\* request (no POST /buyers/import, no list fetch) and leaves csvImporting
\* false
C12_ExtensionRejected ==
    [][\A name \in OtherNames : handleCsvImport(name) =>
          /\ importError' = ExtensionMessage
          /\ inflight' = inflight
          /\ issued' = issued
          /\ ~csvImporting
          /\ ~csvImporting']_vars

\* a file that is not a .csv was chosen after the first list fetch: the
\* extension message is shown and the list fetch is still the only request
C12_Witness ==
    /\ importError = ExtensionMessage
    /\ ~csvImporting
    /\ inflight = {}
    /\ issued = 1
    /\ lastResponse.url = "/buyers"

\* ------------------------------------------------------------------ C13

\* C13: every update body carries the updated_at of the record as fetched;
\* when an update is answered with 409 the edit view shows exactly the
\* fixed conflict message (not the server's error text, not the generic
\* failure message), stays on the edit page and sends no request
C13_ConflictMessage ==
    [][\A req \in UpdatesInFlight :
          /\ req.data[2].updatedAt = buyer.updated_at
          /\ (req \notin inflight' /\ lastResponse'.status = 409) =>
                 /\ editError' = ConflictMessage
                 /\ route' = "edit"
                 /\ ~editLoading'
                 /\ inflight' = inflight \ {req}
                 /\ issued' = issued]_vars

\* an update was answered with 409: the conflict message is shown on the
\* edit page, the form is enabled again and nothing is in flight
C13_Witness ==
    /\ lastResponse.status = 409
    /\ lastResponse.id = 2
    /\ editError = ConflictMessage
    /\ route = "edit"
    /\ ~editLoading
    /\ inflight = {}

\* ------------------------------------------------------------------ C15

\* C15: logout, in whatever state the session store is (a profile check or
\* a login in flight included), sets the identity to null, the in-memory
\* token to null and removes the persisted token in one step, and sends no
\* request
C15_Logout ==
    [][Logout =>
          /\ user' = NoUser
          /\ token' = NoToken
          /\ localStorage' = NoToken
          /\ inflight' = inflight
          /\ issued' = issued]_vars

\* logout was called while the profile check of the restore was in flight
C15_Witness ==
    /\ calls = 1
    /\ \E req \in inflight : req.origin = "getProfile"
    /\ user = NoUser
    /\ token = NoToken
    /\ localStorage = NoToken

\* ------------------------------------------------------------------ C16

LoginsInFlight == {req \in inflight : req.origin \in {"login", "demoLogin"}}

\* C16: when login or demoLogin is answered with success, the identity and
\* the in-memory token become those of the response and the same token is
\* persisted; when it is answered with a failure, the failure is thrown to
\* the caller and the store leaves identity, in-memory token and loading
\* as they were
C16_LoginOutcome ==
    [][\A req \in LoginsInFlight : req \notin inflight' =>
          IF lastResponse'.status = 200
            THEN /\ user' = lastResponse'.body.user
                 /\ token' = lastResponse'.body.token
                 /\ localStorage' = lastResponse'.body.token
                 /\ ~thrown'
            ELSE /\ thrown'
                 /\ user' = user
                 /\ token' = token
                 /\ loading' = loading]_vars

\* a login was rejected while an identity was held: the failure was thrown
\* and the identity and its token are still in memory
C16_Witness ==
    /\ thrown
    /\ lastResponse.url = "/auth/login"
    /\ lastResponse.status = 401
    /\ user # NoUser
    /\ token # NoToken

\* ------------------------------------------------------------------ C17

\* C17: a request sent while a token is persisted carries that token as
\* its bearer header; a request sent while none is persisted gets no
\* Authorization header
C17_BearerHeader ==
    [][\A req \in inflight' \ inflight :
          IF localStorage # NoToken
            THEN req.auth = localStorage
            ELSE req.auth = NoToken]_vars

\* a buyers request in flight with the token a login persisted
C17_Witness ==
    \E req \in inflight :
        /\ req.url = "/buyers"
        /\ req.auth \in ServerTokens
        /\ localStorage = req.auth

\* ------------------------------------------------------------------ C19

\* the record breaks no rule of the buyer schema
SchemaAccepts(c) ==
    /\ FieldIssues(c) = << >>
    /\ ~ObjectAborted(c)
    /\ BhkRefine(c)
    /\ BudgetRefine(c)

\* C19: every update request is for form data the buyer schema accepts,
\* and a submit whose validation reports a field error sends no request
C19_ValidationBlocksUpdate ==
    [][/\ \A req \in UpdatesInFlight' : SchemaAccepts(req.data[1])
       /\ (HandleSubmit /\ ~SchemaAccepts(form)) =>
              /\ errors' # {}
              /\ inflight' = inflight
              /\ issued' = issued]_vars

\* the fetched form was submitted with a field in error: the error is
\* reported, and the fetch is still the only request made
C19_Witness ==
    /\ EditView = "form"
    /\ errors # {}
    /\ ~SchemaAccepts(form)
    /\ lastResponse.status = 200
    /\ issued = 1
    /\ inflight = {}

\* ------------------------------------------------------------------ C14

\* C14 as stated: after a 401 to a request that is not one of the login,
\* registration and profile-check calls, the user is eventually
\* redirected to the login page
C14_AsStated ==
    (lastResponse.status = 401 /\ lastResponse.url \notin excludedPaths) ~> (route = "/login")

\* ------------------------------------------------------------------ C18

\* the requests with which a page fetches buyers
BuyerFetches == {"fetchBuyers", "getBuyer", "fetchBuyer"}

\* C18 as stated: a page's effects redirect to the login page only in a
\* state with loading false and no identity, and a buyer fetch is sent
\* only in a state with an identity and never while loading is true
C18_AsStated ==
    [][/\ (EffectsPending /\ route' # route) => (~loading /\ user = NoUser)
       /\ \A req \in inflight' \ inflight :
              req.origin \in BuyerFetches => (user # NoUser /\ ~loading)]_vars

\* ------------------------------------------------------------------ C20

\* C20: the step that handles a failed answer sends no request, and the
\* effects of a page that is already shown send one only when the identity
\* changed; every other request is sent by a user action, by the first
\* effects of a page just opened, or by the list refresh of a successful
\* import
C20_NoAutomaticRetry ==
    [][/\ \A req \in inflight :
              (req \notin inflight' /\ lastResponse'.status # 200) =>
                  /\ inflight' = inflight \ {req}
                  /\ issued' = issued
       /\ (EffectsPending /\ PageMounted /\ issued' # issued) => deps[1] # user]_vars

\* the list fetch failed: the error is shown, the list is not loading and
\* nothing is in flight
C20_Witness ==
    /\ route = "/buyers"
    /\ lastResponse.url = "/buyers"
    /\ lastResponse.status = 500
    /\ listError = "Failed to fetch buyers"
    /\ ~listLoading
    /\ inflight = {}

\* ------------------------------------------------------------------ C21

EditRequests == {req \in inflight : req.origin \in {"fetchBuyer", "updateBuyer"}}

\* C21 as stated: whenever a request of the edit view, the fetch of the
\* record or the update, is answered with 403, the view shows the
\* permission message and its record and form are left as they were
C21_AsStated ==
    [][\A req \in EditRequests :
          (req \notin inflight' /\ lastResponse'.status = 403) =>
              /\ editError' = PermissionMessage
              /\ buyer' = buyer
              /\ form' = form]_vars

\* ------------------------------------------------------------------ C22

\* the characters 0 to 9
DecimalDigits == {"0", "1", "2", "3", "4", "5", "6", "7", "8", "9"}

\* C22: a phone is accepted exactly when it is a string of 10 to 15
\* decimal digits and nothing else; every other string is rejected with
\* one error, on the phone field; "12345" is rejected and "9876543210"
\* accepted
C22_PhoneRule ==
    phoneParsed # << >> =>
        LET tenToFifteenDigits ==
                /\ Len(phone) \in 10..15
                /\ \A i \in 1..Len(phone) : SubSeq(phone, i, i) \in DecimalDigits
        IN /\ tenToFifteenDigits <=> phoneParsed[1] = << >>
           /\ ~tenToFifteenDigits =>
                  /\ Len(phoneParsed[1]) = 1
                  /\ phoneParsed[1][1].path = "phone"
           /\ phone = "12345" => phoneParsed[1] # << >>
           /\ phone = "9876543210" => phoneParsed[1] = << >>

\* a string of ten to fifteen characters, one of them a newline at the
\* end, was rejected on the phone field
C22_Witness ==
    /\ phoneParsed # << >>
    /\ Len(phone) = 11
    /\ SubSeq(phone, 11, 11) = "\n"
    /\ phoneParsed[1] = <<Issue("phone", PhoneMessage)>>

\* ------------------------------------------------------------------ C23

\* the position of the first issue of a result on the path with the
\* message, 0 if there is none
IssueIndex(res, path, message) ==
    IF HasIssue(res, path, message)
      THEN CHOOSE i \in 1..Len(res.issues) :
               /\ res.issues[i] = Issue(path, message)
               /\ \A j \in 1..(i - 1) : res.issues[j] # Issue(path, message)
      ELSE 0

\* the record breaks the rule that Apartment and Villa need a bhk
BreaksBhkRule(c) ==
    c.propertyType \in {"Apartment", "Villa"} /\ c.bhk \notin BHKEnum

\* the record breaks the rule budgetMax >= budgetMin
BreaksBudgetRule(c) ==
    BothBudgets(c) /\ c.budgetMax[1] < c.budgetMin[1]

\* C23 as stated: the two cross-field rules are evaluated only after all
\* field rules pass: a record with any field error gets neither the bhk
\* error nor the budget-order error, and a record that passes every field
\* rule and breaks both cross-field rules gets both errors, the one on bhk
\* before the one on budgetMax
C23_AsStated ==
    parsed # << >> =>
        /\ FieldIssues(candidate) # << >> =>
               /\ ~HasIssue(parsed[1], "bhk", BhkMessage)
               /\ ~HasIssue(parsed[1], "budgetMax", BudgetMessage)
        /\ (/\ FieldIssues(candidate) = << >>
            /\ BreaksBhkRule(candidate)
            /\ BreaksBudgetRule(candidate)) =>
               /\ HasIssue(parsed[1], "bhk", BhkMessage)
               /\ HasIssue(parsed[1], "budgetMax", BudgetMessage)
               /\ IssueIndex(parsed[1], "bhk", BhkMessage)
                      < IssueIndex(parsed[1], "budgetMax", BudgetMessage)

\* ------------------------------------------------------------------ C24

\* C24 as stated: the page of the filter state is an integer, at least 1,
\* in every reachable state of the list view, whatever the page parameter
\* of the opening URL and after any filter or pagination change
C24_AsStated == ~filters.page.nan /\ filters.page.n >= 1

\* ------------------------------------------------------------------ C25

DeletesInFlight == {req \in inflight : req.origin = "deleteBuyer"}

\* C25: a DELETE /buyers/:id request is sent only for a loaded record and
\* after the user confirmed the prompt; when the prompt is declined no
\* request is sent and the view stays on the record; the view goes to the
\* list only when a delete request was answered with success
C25_DeleteConfirmed ==
    [][/\ \A req \in DeletesInFlight' \ DeletesInFlight :
              /\ detailBuyer # NoBuyer
              /\ req.url = "/buyers/b1"
              /\ dialog' = "confirm: ok"
       /\ handleDelete(FALSE) =>
              /\ inflight' = inflight
              /\ issued' = issued
              /\ route' = route
              /\ detailBuyer' = detailBuyer
       /\ (route # "/buyers" /\ route' = "/buyers") =>
              \E req \in DeletesInFlight \ DeletesInFlight' :
                  lastResponse'.status = 200]_vars

\* the user declined the prompt on a loaded record: nothing but the fetch
\* was ever sent and the view is still on the record
C25_Witness ==
    /\ dialog = "confirm: cancel"
    /\ detailBuyer # NoBuyer
    /\ issued = 1
    /\ inflight = {}
    /\ route = "/buyers/b1"

\* ------------------------------------------------------------------ C26

\* C26 as stated: in every reachable state of the session store, under
\* every interleaving of restore, login, demo login, logout and answers,
\* the identity is set only if the in-memory token is set
C26_AsStated == user # NoUser => token # NoToken

\* ------------------------------------------------------------------ C27

\* C27 as stated: whenever the store is not loading, the token in memory
\* equals the persisted token, also after a 401 answer to a buyer request
C27_AsStated == ~loading => token = localStorage

\* ------------------------------------------------------------------ C28

ListFetches == {req \in inflight : req.origin = "fetchBuyers"}

\* C28 as stated: the loading flag of the list view is true whenever at
\* least one list fetch is in flight; with overlapping fetches it stays
\* true until the last of them is answered
C28_AsStated == ListFetches # {} => listLoading

\* ------------------------------------------------------------------ C29

\* C29 as stated: the import error and the import success message are
\* never both shown, after any sequence of import attempts and dismissals
C29_AsStated == ~(importError # "" /\ importSuccess # "")

\* ------------------------------------------------------------------ C30

\* C30: given that the mount effect runs and the profile check is answered
\* or fails, the loading flag eventually becomes false; and once false it
\* is never true again, whatever login, demo login and logout do
C30_Settles ==
    /\ <>(~loading)
    /\ [][~loading => ~loading']_vars

\* the profile check was answered, the store stopped loading, and a login
\* was called and answered after that
C30_Witness ==
    /\ ~loading
    /\ mounted
    /\ issued >= 2
    /\ inflight = {}
    /\ lastResponse.url \in {"/auth/login", "/auth/demo-login"}
    /\ localStorage \in ServerTokens

====
